---- MODULE Spec2Model ----
(***************************************************************************)
(* Halstead complexity pass (HalsteadComplexity.cpp).                      *)
(*                                                                         *)
(* One HalsteadComplexity pass instance: its members F, Operators,         *)
(* Operands, DistinctOperators, DistinctOperands; runOnFunction walking    *)
(* the instructions of the function it is given; print writing the ten     *)
(* metrics to the stream it is given.                                      *)
(***************************************************************************)
EXTENDS Integers, Sequences, FiniteSets, TLC

(***************************************************************************)
(* Bounds of the model.                                                    *)
(***************************************************************************)
\* longest function body handed to runOnFunction
MaxInstrs == 3
\* most operator occurrences one pass instance is followed to
MaxTotalOperators == 3
\* print calls followed between two runOnFunction calls
MaxPrints == 2
\* fractional bits of the fixed-point numbers that stand for float/double
FracBits == 4

(***************************************************************************)
(* The host's instruction stream: an instruction has an opcode, an ordered *)
(* operand list, and is or is not a DbgInfoIntrinsic.  Values are          *)
(* identified by their address, here by a name.                            *)
(***************************************************************************)
Inst(op, ops, d) == [opcode |-> op, operands |-> ops, dbg |-> d]

AddAB   == Inst("Add", <<"a", "b">>, FALSE)
MulR1C  == Inst("Mul", <<"r1", "c">>, FALSE)
RetR2   == Inst("Ret", <<"r2">>, FALSE)
AddAA   == Inst("Add", <<"a", "a">>, FALSE)
RetVoid == Inst("Ret", <<>>, FALSE)
\* call void @llvm.dbg.value(metadata, metadata): a Call, and its operand
\* md occurs in no other instruction
DbgValue == Inst("Call", <<"md", "a">>, TRUE)

Instructions == {AddAB, MulR1C, RetR2, AddAA, RetVoid, DbgValue}

\* the addresses of the functions of the module
FunctionNames == {"f", "g"}

\* isa<DbgInfoIntrinsic>(&*I)
isaDbgInfoIntrinsic(inst) == inst.dbg

Range(s) == {s[i] : i \in 1..Len(s)}

(***************************************************************************)
(* State of the pass instance.  A function is its address (here its name)  *)
(* and its body; the body of the function runOnFunction is given shows as  *)
(* the instruction iterator walks it.                                      *)
(***************************************************************************)
VARIABLES
    F,                  \* member Function *F: [valid, name]; not valid = never assigned
    Operators,          \* SmallVector<unsigned> Operators
    Operands,           \* SmallVector<const Value *> Operands
    DistinctOperators,  \* SmallSet<unsigned> DistinctOperators
    DistinctOperands,   \* SmallPtrSet<const Value *> DistinctOperands
    pc,                 \* "idle", "loop" (inside runOnFunction), "fault"
    Fn,                 \* the argument F of the running (or latest) runOnFunction:
                        \* [name, body], body the instructions walked so far
    OS,                 \* what print wrote since the latest runOnFunction
    entry               \* the members as they were when the latest runOnFunction was entered

vars == <<F, Operators, Operands, DistinctOperators, DistinctOperands,
          pc, Fn, OS, entry>>

\* the analysis state as one value
State(ops, opnds, dops, dopnds) ==
    [Operators |-> ops, Operands |-> opnds,
     DistinctOperators |-> dops, DistinctOperands |-> dopnds]

Cur == State(Operators, Operands, DistinctOperators, DistinctOperands)

NoFunction == [name |-> "?", body |-> <<>>]
\* the members after construction: empty containers, F not initialised
Uninit == [valid |-> FALSE, name |-> "?"]
Empty == State(<<>>, <<>>, {}, {})

(***************************************************************************)
(* runOnFunction                                                           *)
(***************************************************************************)
\* an iteration that does not skip debug intrinsics
ProcessInstructionNoSkip(st, inst) ==
    [st EXCEPT !.Operators = Append(@, inst.opcode),
               !.Operands = @ \o inst.operands]

\* an iteration that pushes each value an instruction uses once
RECURSIVE Once(_)
Once(ops) ==
    IF ops = <<>> THEN <<>>
    ELSE LET rest == Once(SelectSeq(Tail(ops), LAMBDA v : v # Head(ops)))
         IN  <<Head(ops)>> \o rest

ProcessInstructionOncePerValue(st, inst) ==
    IF isaDbgInfoIntrinsic(inst)
    THEN st
    ELSE [st EXCEPT !.Operators = Append(@, inst.opcode),
                    !.Operands = @ \o Once(inst.operands)]

\* one iteration of the instruction loop
ProcessInstruction(st, inst) ==
    IF isaDbgInfoIntrinsic(inst)
    THEN st
    ELSE [st EXCEPT !.Operators = Append(@, inst.opcode),
                    !.Operands = @ \o inst.operands]

\* inserts that release the occurrence lists once they are folded
BuildDistinctDropLists(st) ==
    [st EXCEPT !.DistinctOperators = @ \cup Range(st.Operators),
               !.DistinctOperands = @ \cup Range(st.Operands),
               !.Operators = <<>>,
               !.Operands = <<>>]

\* the two range inserts after the loop
BuildDistinct(st) ==
    [st EXCEPT !.DistinctOperators = @ \cup Range(st.Operators),
               !.DistinctOperands = @ \cup Range(st.Operands)]

RECURSIVE InstLoop(_, _)
InstLoop(st, body) ==
    IF body = <<>> THEN st
    ELSE InstLoop(ProcessInstruction(st, Head(body)), Tail(body))

\* the whole call, on the members st
RunOnFunction(st, body) == BuildDistinct(InstLoop(st, body))

Init ==
    /\ F = Uninit
    /\ Operators = <<>>
    /\ Operands = <<>>
    /\ DistinctOperators = {}
    /\ DistinctOperands = {}
    /\ pc = "idle"
    /\ Fn = NoFunction
    /\ OS = <<>>
    /\ entry = [called |-> FALSE, st |-> Empty, same |-> FALSE, prev |-> <<>>]

\* the host calls runOnFunction(F); I = inst_begin(F)
\* (entry.same: the body walked so far is a prefix of the body of the call
\* before, which entry.prev holds as long as that is so)
Call ==
    /\ pc = "idle"
    /\ \E name \in FunctionNames : Fn' = [name |-> name, body |-> <<>>]
    /\ entry' = [called |-> TRUE, st |-> Cur, same |-> entry.called,
                 prev |-> IF entry.called THEN Fn.body ELSE <<>>]
    /\ pc' = "loop"
    /\ OS' = <<>>
    /\ UNCHANGED <<F, Operators, Operands, DistinctOperators, DistinctOperands>>

\* I != inst_end(F): the iterator is at an instruction inst; the loop body; ++I
\* (bodies are followed up to MaxInstrs instructions, and an instance up to
\* MaxTotalOperators operator occurrences)
LoopStep ==
    /\ pc = "loop"
    /\ Len(Fn.body) < MaxInstrs
    /\ \E inst \in Instructions :
          /\ isaDbgInfoIntrinsic(inst) \/ Len(Operators) < MaxTotalOperators
          /\ Fn' = [Fn EXCEPT !.body = Append(@, inst)]
          /\ LET st == ProcessInstruction(Cur, inst) IN
                /\ Operators' = st.Operators
                /\ Operands' = st.Operands
                /\ DistinctOperators' = st.DistinctOperators
                /\ DistinctOperands' = st.DistinctOperands
          /\ LET i == Len(Fn.body) + 1
                 same == entry.same /\ i <= Len(entry.prev) /\ entry.prev[i] = inst
             IN  entry' = [entry EXCEPT !.same = same,
                                        !.prev = IF same THEN @ ELSE <<>>]
    /\ UNCHANGED <<F, pc, OS>>

\* I = inst_end(F): the inserts, this->F = &F, return false
Finish ==
    /\ pc = "loop"
    /\ LET st == BuildDistinct(Cur) IN
          /\ Operators' = st.Operators
          /\ Operands' = st.Operands
          /\ DistinctOperators' = st.DistinctOperators
          /\ DistinctOperands' = st.DistinctOperands
    /\ F' = [valid |-> TRUE, name |-> Fn.name]
    /\ pc' = "idle"
    /\ LET same == entry.same /\ Len(Fn.body) = Len(entry.prev)
       IN  entry' = [entry EXCEPT !.same = same, !.prev = <<>>]
    /\ UNCHANGED <<Fn, OS>>

(***************************************************************************)
(* Numbers of print.  The counts are size_t; float and double values are   *)
(* fixed-point numbers with FracBits fractional bits (v stands for         *)
(* v / Scale), or one of the IEEE values NaN, -inf, +inf.                  *)
(***************************************************************************)
Scale == 2 ^ FracBits

Fin(v) == [k |-> "fin", v |-> v]
NaN == [k |-> "nan", v |-> 0]
NegInf == [k |-> "-inf", v |-> 0]
PosInf == [k |-> "+inf", v |-> 0]

\* conversion of a size_t to float/double
ToFloat(n) == Fin(n * Scale)

RECURSIVE ILog2(_)
ILog2(x) == IF x < 2 THEN 0 ELSE 1 + ILog2(x \div 2)

\* the fractional bits of log2 of m / Scale, for 1 <= m / Scale < 2
RECURSIVE Log2Frac(_, _)
Log2Frac(m, bits) ==
    IF bits = 0 THEN 0
    ELSE LET sq == (m * m) \div Scale IN
         IF sq >= 2 * Scale
         THEN 2 ^ (bits - 1) + Log2Frac(sq \div 2, bits - 1)
         ELSE Log2Frac(sq, bits - 1)

\* llvm::Log2(double), on a size_t argument: log2(0) is -inf
Log2(x) ==
    IF x = 0 THEN NegInf
    ELSE Fin(ILog2(x) * Scale + Log2Frac((x * Scale) \div (2 ^ ILog2(x)), FracBits))

Sign(f) ==
    CASE f.k = "-inf" -> -1
      [] f.k = "+inf" -> 1
      [] OTHER -> IF f.v < 0 THEN -1 ELSE IF f.v > 0 THEN 1 ELSE 0

\* IEEE multiplication: 0 * inf is NaN
FloatMul(f, g) ==
    IF f.k = "nan" \/ g.k = "nan" THEN NaN
    ELSE IF f.k = "fin" /\ g.k = "fin" THEN Fin((f.v * g.v) \div Scale)
    ELSE IF Sign(f) * Sign(g) = 0 THEN NaN
    ELSE IF Sign(f) * Sign(g) < 0 THEN NegInf ELSE PosInf

\* IEEE addition: inf + -inf is NaN
FloatAdd(f, g) ==
    IF f.k = "nan" \/ g.k = "nan" THEN NaN
    ELSE IF f.k = "fin" /\ g.k = "fin" THEN Fin(f.v + g.v)
    ELSE IF f.k = "fin" THEN g
    ELSE IF g.k = "fin" THEN f
    ELSE IF f.k = g.k THEN f ELSE NaN

\* what a build may leave in the quotient of a size_t division by zero
\* that does not trap
UndefQuotients == {0, 1}
\* what a build may read through a Function pointer that was never assigned
UndefNames == {"garbage"}

\* NumTotalOperands / NumDistinctOperands: [trap, q]
Quotients(n, d) ==
    IF d = 0
    THEN {[trap |-> TRUE, q |-> 0]} \cup {[trap |-> FALSE, q |-> v] : v \in UndefQuotients}
    ELSE {[trap |-> FALSE, q |-> n \div d]}

\* this->F->getName(): [trap, name]
Names(f) ==
    IF f.valid
    THEN {[trap |-> FALSE, name |-> f.name]}
    ELSE {[trap |-> TRUE, name |-> "?"]} \cup {[trap |-> FALSE, name |-> v] : v \in UndefNames}

\* a difficulty whose first division is a real division
DifficultyReal(NumDistinctOperators, quot) ==
    Fin(((NumDistinctOperators * Scale) \div 2) * quot)

\* float Difficulty = (NumDistinctOperators / 2) * (the quotient quot)
Difficulty(NumDistinctOperators, quot) ==
    ToFloat((NumDistinctOperators \div 2) * quot)

\* the header and the ten lines print writes, given the quotient and the name
Report(st, quot, name) ==
    LET NumDistinctOperators == Cardinality(st.DistinctOperators)
        NumDistinctOperands == Cardinality(st.DistinctOperands)
        NumTotalOperators == Len(st.Operators)
        NumTotalOperands == Len(st.Operands)
        Vocabulary == NumDistinctOperators + NumDistinctOperands
        ProgramLength == NumTotalOperators + NumTotalOperands
        Volume == FloatMul(ToFloat(ProgramLength), Log2(Vocabulary))
        Diff == Difficulty(NumDistinctOperators, quot)
    IN  [F |-> name,
         NumDistinctOperators |-> NumDistinctOperators,
         NumDistinctOperands |-> NumDistinctOperands,
         NumTotalOperators |-> NumTotalOperators,
         NumTotalOperands |-> NumTotalOperands,
         Vocabulary |-> Vocabulary,
         ProgramLength |-> ProgramLength,
         EstimatedLength |->
             FloatAdd(FloatMul(ToFloat(NumDistinctOperators), Log2(NumDistinctOperators)),
                      FloatMul(ToFloat(NumDistinctOperands), Log2(NumDistinctOperands))),
         Volume |-> Volume,
         Difficulty |-> Diff,
         Effort |-> FloatMul(Diff, Volume)]

\* a print that consumes the occurrence lists it reports
PrintMembersConsume(st) == [st EXCEPT !.Operators = <<>>, !.Operands = <<>>]

\* print is a const member function: the members after it
PrintMembers(st) == st

\* print(OS, M)
print ==
    /\ pc = "idle"
    /\ Len(OS) < MaxPrints
    /\ \E d \in Quotients(Len(Operands), Cardinality(DistinctOperands)), n \in Names(F) :
          IF d.trap \/ n.trap
          THEN pc' = "fault" /\ OS' = OS
          ELSE pc' = pc /\ OS' = Append(OS, Report(Cur, d.q, n.name))
    /\ LET st == PrintMembers(Cur) IN
          /\ Operators' = st.Operators
          /\ Operands' = st.Operands
          /\ DistinctOperators' = st.DistinctOperators
          /\ DistinctOperands' = st.DistinctOperands
    /\ UNCHANGED <<F, Fn, entry>>

Next == Call \/ LoopStep \/ Finish \/ print

Spec == Init /\ [][Next]_vars
(***************************************************************************)
(* Properties                                                              *)
(***************************************************************************)
\* the latest runOnFunction has returned (print calls may have followed)
Returned == entry.called /\ pc # "loop"

RECURSIVE NumNonDebug(_)
NumNonDebug(body) ==
    IF body = <<>> THEN 0
    ELSE (IF isaDbgInfoIntrinsic(Head(body)) THEN 0 ELSE 1) + NumNonDebug(Tail(body))

RECURSIVE NumOperandSlots(_)
NumOperandSlots(body) ==
    IF body = <<>> THEN 0
    ELSE (IF isaDbgInfoIntrinsic(Head(body)) THEN 0 ELSE Len(Head(body).operands))
         + NumOperandSlots(Tail(body))

NonDebug(body) == SelectSeq(body, LAMBDA inst : ~isaDbgInfoIntrinsic(inst))

OpcodesOf(body) == [i \in 1..Len(NonDebug(body)) |-> NonDebug(body)[i].opcode]

RECURSIVE OperandsOf(_)
OperandsOf(body) ==
    IF body = <<>> THEN <<>>
    ELSE (IF isaDbgInfoIntrinsic(Head(body)) THEN <<>> ELSE Head(body).operands)
         \o OperandsOf(Tail(body))

RemoveAt(body, i) == [j \in 1..(Len(body) - 1) |-> IF j < i THEN body[j] ELSE body[j + 1]]

Reports == Range(OS)

\* n1, n2, N1, N2, vocabulary and program length of the members st
Counts(st) ==
    [NumDistinctOperators |-> Cardinality(st.DistinctOperators),
     NumDistinctOperands |-> Cardinality(st.DistinctOperands),
     NumTotalOperators |-> Len(st.Operators),
     NumTotalOperands |-> Len(st.Operands),
     Vocabulary |-> Cardinality(st.DistinctOperators) + Cardinality(st.DistinctOperands),
     ProgramLength |-> Len(st.Operators) + Len(st.Operands)]

CountsOfReport(r) ==
    [NumDistinctOperators |-> r.NumDistinctOperators,
     NumDistinctOperands |-> r.NumDistinctOperands,
     NumTotalOperators |-> r.NumTotalOperators,
     NumTotalOperands |-> r.NumTotalOperands,
     Vocabulary |-> r.Vocabulary,
     ProgramLength |-> r.ProgramLength]

\* what print may write for the members st under the name name
ReportsOf(st, name) ==
    {Report(st, d.q, name) :
        d \in {e \in Quotients(Len(st.Operands), Cardinality(st.DistinctOperands)) : ~e.trap}}

ScenarioB == <<AddAB, MulR1C, RetR2>>

\* C1: when runOnFunction(G) has returned, the occurrence lists and the
\* distinct sets hold only opcodes and operands of G's non-debug
\* instructions, nothing of a function analysed earlier.
C1_OnlyThisFunction ==
    Returned =>
        /\ Range(Operators) \subseteq Range(OpcodesOf(Fn.body))
        /\ DistinctOperators \subseteq Range(OpcodesOf(Fn.body))
        /\ Range(Operands) \subseteq Range(OperandsOf(Fn.body))
        /\ DistinctOperands \subseteq Range(OperandsOf(Fn.body))

\* C2: when runOnFunction has returned, Operators.size() (and the total
\* print reports) is the number of non-debug instructions of the function,
\* and Operands.size() the sum of their operand counts.
C2_TotalsOfThisFunction ==
    Returned =>
        /\ Len(Operators) = NumNonDebug(Fn.body)
        /\ Len(Operands) = NumOperandSlots(Fn.body)
        /\ \A r \in Reports :
              /\ r.NumTotalOperators = NumNonDebug(Fn.body)
              /\ r.NumTotalOperands = NumOperandSlots(Fn.body)

\* C3: for a function with no non-debug instruction, analysed by a fresh
\* pass, runOnFunction and then print end without a fault; every count,
\* the vocabulary and the program length are 0 and the difficulty is one
\* finite number.
C3_EmptyFunctionPrints ==
    (Returned /\ entry.st = Empty /\ NumNonDebug(Fn.body) = 0) =>
        /\ pc # "fault"
        /\ \A r \in Reports :
              /\ CountsOfReport(r) = Counts(Empty)
              /\ r.Difficulty.k = "fin"
        /\ \A r, q \in Reports : r.Difficulty = q.Difficulty

\* C4: a debug intrinsic at any place of the body changes nothing: the
\* members after the call, their six counts and every report print wrote
\* are those of the same call on the body without that instruction.
C4_DebugInstructionChangesNothing ==
    Returned =>
        \A i \in 1..Len(Fn.body) :
            isaDbgInfoIntrinsic(Fn.body[i]) =>
                LET without == RunOnFunction(entry.st, RemoveAt(Fn.body, i)) IN
                    /\ Cur = without
                    /\ Counts(Cur) = Counts(without)
                    /\ \A r \in Reports : r \in ReportsOf(without, r.F)

C4_Witness ==
    /\ Returned
    /\ Len(Fn.body) = 3
    /\ ~isaDbgInfoIntrinsic(Fn.body[1])
    /\ isaDbgInfoIntrinsic(Fn.body[2])
    /\ ~isaDbgInfoIntrinsic(Fn.body[3])
    /\ Len(Operators) = 2
    /\ OS # <<>>

\* C5: a second runOnFunction on the body the call before it analysed
\* leaves the members as that call left them.
C5_RerunSameState ==
    (Returned /\ entry.same) => Cur = entry.st

\* C6: in every state there are no more distinct operators than operator
\* occurrences and no more distinct operands than operand occurrences.
C6_DistinctAtMostTotal ==
    /\ Cardinality(DistinctOperators) <= Len(Operators)
    /\ Cardinality(DistinctOperands) <= Len(Operands)

\* inside the loop of a later call, with sets built by an earlier one
C6_Witness ==
    /\ pc = "loop"
    /\ DistinctOperands # {}
    /\ Fn.body # <<>>
    /\ Len(Operands) > Len(entry.st.Operands)
    /\ Cardinality(DistinctOperands) < Len(Operands)

\* C7: when runOnFunction has returned, DistinctOperators is the set of the
\* opcodes in Operators and DistinctOperands the set of the values in
\* Operands, and the call added one operand occurrence per operand slot.
C7_DistinctAreTheListsElements ==
    Returned =>
        /\ DistinctOperators = Range(Operators)
        /\ DistinctOperands = Range(Operands)
        /\ Len(Operands) = Len(entry.st.Operands) + NumOperandSlots(Fn.body)

\* r = add x, x: two occurrences, one distinct operand
C7_Witness ==
    /\ Returned
    /\ entry.st = Empty
    /\ Fn.body = <<AddAA>>
    /\ Len(Operands) = 2
    /\ Cardinality(DistinctOperands) = 1

\* C8: every report with n2 > 0 has difficulty (n1 div 2) * (N2 div n2),
\* both divisions truncating; with n1 = 3, N2 = 5, n2 = 5 it is 1, not 1.5.
C8_DifficultyTruncates ==
    \A r \in Reports :
        r.NumDistinctOperands > 0 =>
            /\ r.Difficulty = Fin(((r.NumDistinctOperators \div 2)
                                    * (r.NumTotalOperands \div r.NumDistinctOperands)) * Scale)
            /\ (r.NumDistinctOperators = 3 /\ r.NumTotalOperands = 5
                   /\ r.NumDistinctOperands = 5) =>
                  (r.Difficulty = Fin(Scale) /\ r.Difficulty # Fin((3 * Scale) \div 2))

C8_Witness ==
    /\ Returned
    /\ entry.st = Empty
    /\ Fn.body = ScenarioB
    /\ \E r \in Reports :
          /\ r.NumDistinctOperators = 3
          /\ r.NumTotalOperands = 5
          /\ r.NumDistinctOperands = 5
          /\ r.Difficulty = Fin(Scale)

\* C9: when runOnFunction has returned, Operators is the opcodes of the
\* function's non-debug instructions in program order and Operands the
\* concatenation of their operand lists; for scenario B it is a, b, r1, c, r2.
C9_ListsAreThisFunctionInOrder ==
    Returned =>
        /\ Operators = OpcodesOf(Fn.body)
        /\ Operands = OperandsOf(Fn.body)
        /\ Fn.body = ScenarioB => Operands = <<"a", "b", "r1", "c", "r2">>

\* C10: print calls leave the members as runOnFunction left them, and each
\* report carries the six counts of those members and the recorded function.
C10_PrintReadsOnly ==
    Returned =>
        /\ Cur = RunOnFunction(entry.st, Fn.body)
        /\ F = [valid |-> TRUE, name |-> Fn.name]
        /\ \A r \in Reports :
              /\ CountsOfReport(r) = Counts(Cur)
              /\ r.F = Fn.name

C10_Witness ==
    /\ Returned
    /\ pc = "idle"
    /\ Len(OS) = 2
    /\ OS[1] = OS[2]
    /\ Operands # <<>>
====
